---- MODULE Spec2Model ----
(***************************************************************************)
(* A model of app/app.py: the FastAPI application that wraps the           *)
(* fastapi-users user manager and authentication backend behind four       *)
(* template routes (/, /my-login, /register, /logout).                     *)
(*                                                                         *)
(* One client talks to the application.  Every action is one HTTP exchange *)
(* taken whole: the client sends a request with its cookie jar, the        *)
(* application routes it, the handler runs (with every library call it     *)
(* makes), the exception handlers turn a raised exception into a response, *)
(* and the client stores the cookies of the response.                      *)
(*                                                                         *)
(* Strings are the program's strings.  None is Python's None.  A response  *)
(* is [status_code, raw_headers, body]; raw_headers is the ordered list of *)
(* (name, value) pairs Starlette keeps.                                    *)
(***************************************************************************)
EXTENDS Integers, Sequences, FiniteSets, TLC

VARIABLES
    db,      \* the user table: email -> [id, password, is_active]
    nextId,  \* the id the next created user gets
    jar,     \* the client's auth cookie ("" when it has none)
    req,     \* the last request the client sent
    resp,    \* the response it got
    calls,   \* the library calls the handler of that request made, in order
    exc,     \* how the routed call of that request ended, before the exception handlers
    trail,   \* the paths requested since the client's own request, redirects followed
    mix      \* SpecMixin only: one call of mixin_redirect, its arguments and result

vars == <<db, nextId, jar, req, resp, calls, exc, trail, mix>>

----------------------------------------------------------------------------
(* Bounds *)

NumEmails == 2
MaxHops == 3
MaxHdrs == 2

----------------------------------------------------------------------------
(* Status codes *)

HTTP_303_SEE_OTHER == 303
HTTP_302_FOUND == 302
HTTP_401_UNAUTHORIZED == 401
HTTP_404_NOT_FOUND == 404

----------------------------------------------------------------------------
(* Values *)

None == "None"
Missing == "<missing>"
NoCookie == ""

Email(i) == "u" \o ToString(i) \o "@x.io"
Emails == {Email(i) : i \in 1..NumEmails}
BadEmail == "not-an-email"
Passwords == {"pw1", "pw2"}

\* the ids of users; 0 is the id of a user that is stored no more
Ids == 0..NumEmails
UserRec == [id : Ids \ {0}, password : Passwords, is_active : BOOLEAN]

Hdr(n, v) == [name |-> n, value |-> v]

EmptyBody == [kind |-> "empty", name |-> "", context |-> ""]
TemplateBody(name, context) == [kind |-> "template", name |-> name, context |-> context]
JsonBody(text) == [kind |-> "json", name |-> text, context |-> ""]
TextBody(text) == [kind |-> "text", name |-> text, context |-> ""]

BodyLen(body) == IF body.kind = "empty" THEN "0" ELSE "len(" \o body.name \o ")"

----------------------------------------------------------------------------
(* Starlette / FastAPI responses *)

\* Response(status_code=...): no media type; a body of b"" whose length is
\* announced except on 1xx, 204 and 304.
Response(status) ==
    [status_code |-> status,
     raw_headers |-> IF status < 200 \/ status \in {204, 304}
                     THEN <<>>
                     ELSE <<Hdr("content-length", "0")>>,
     body |-> EmptyBody]

\* RedirectResponse(url, status_code): an empty body, its length, then location.
RedirectResponse(url, status) ==
    [status_code |-> status,
     raw_headers |-> <<Hdr("content-length", "0"), Hdr("location", url)>>,
     body |-> EmptyBody]

\* JSONResponse(content, status_code, headers): the given headers first.
JSONResponse(text, status, headers) ==
    [status_code |-> status,
     raw_headers |-> headers \o <<Hdr("content-length", BodyLen(JsonBody(text))),
                                  Hdr("content-type", "application/json")>>,
     body |-> JsonBody(text)]

\* templates.TemplateResponse(name=..., request=..., context=...)
TemplateResponse(name, context) ==
    [status_code |-> 200,
     raw_headers |-> <<Hdr("content-length", BodyLen(TemplateBody(name, context))),
                       Hdr("content-type", "text/html; charset=utf-8")>>,
     body |-> TemplateBody(name, context)]

----------------------------------------------------------------------------
(* What a handler or a dependency ends with *)

Store(d, n, c) == [db |-> d, nextId |-> n, calls |-> c]

Return(r, st) == [kind |-> "return", resp |-> r, st |-> st]
\* raise HTTPException(status_code, detail, headers)
Raise(status, detail, headers, st) ==
    [kind |-> "raise", status_code |-> status, detail |-> detail,
     headers |-> headers, st |-> st]
\* an exception no handler of the application is registered for
Crash(type, st) == [kind |-> "crash", type |-> type, st |-> st]
\* RequestValidationError: a required form field is missing
Invalid(st) == [kind |-> "invalid", st |-> st]

Call(fn, arg, token) == [fn |-> fn, arg |-> arg, token |-> token]

----------------------------------------------------------------------------
(* fastapi-users: the user manager, the JWT strategy and the cookie transport *)

\* JWTStrategy.write_token(user): a signed token whose subject is the user's id
Token(id) == "jwt." \o ToString(id)

\* the user (its email, the table's key) with this id, or None
UserById(d, id) ==
    IF \E e \in DOMAIN d : d[e].id = id
    THEN CHOOSE e \in DOMAIN d : d[e].id = id
    ELSE None

\* JWTStrategy.read_token(token, user_manager): None for no token, for a token
\* that does not decode, and for the id of no stored user
read_token(d, token) ==
    IF token = NoCookie THEN None
    ELSE IF \E i \in Ids : Token(i) = token
         THEN UserById(d, CHOOSE i \in Ids : Token(i) = token)
         ELSE None

\* user_manager.authenticate(credentials)
authenticate(d, email, password) ==
    IF email \in DOMAIN d /\ d[email].password = password THEN email ELSE None

\* user_manager.create(user_create): UserAlreadyExists for a stored email;
\* a created user is active and gets a fresh id
UserAlreadyExists(d, email) == email \in DOMAIN d

create(d, n, email, password) ==
    [x \in DOMAIN d \cup {email} |->
        IF x = email
        THEN [id |-> n, password |-> password, is_active |-> TRUE]
        ELSE d[x]]

\* BaseUserCreate(email=..., password=...): email is an EmailStr
ValidEmail(email) == email \in Emails

\* auth_backend.login(strategy, user): CookieTransport.get_login_response
login(d, user) ==
    LET r == Response(204)
    IN  [r EXCEPT !.raw_headers = @ \o <<Hdr("set-cookie", Token(d[user].id))>>]

\* auth_backend.logout(strategy, user, token): the JWT strategy cannot destroy a
\* token (the backend passes over that); CookieTransport.get_logout_response
logout(user, token) ==
    LET r == Response(204)
    IN  [r EXCEPT !.raw_headers = @ \o <<Hdr("set-cookie", NoCookie)>>]

----------------------------------------------------------------------------
(* app.users: the dependencies *)

\* current_user = fastapi_users.current_user(optional=True)
current_user(d, cookie) == read_token(d, cookie)

\* current_active_user = fastapi_users.current_user(active=True)
current_active_user(d, cookie) ==
    LET user == read_token(d, cookie)
    IN  IF user # None /\ d[user].is_active THEN user ELSE None

\* get_current_user_token = fastapi_users.authenticator.current_user_token()
get_current_user_token(d, cookie) ==
    [user |-> read_token(d, cookie), token |-> cookie]

----------------------------------------------------------------------------
(* app/app.py *)

\* mutant: the 401 handler answers the error itself
unauthorized_exception_handler_plain(st) ==
    Return(JSONResponse("detail: Unauthorized", HTTP_401_UNAUTHORIZED, <<>>), st)

not_found_exception_handler(st) ==
    Return(RedirectResponse("/", HTTP_303_SEE_OTHER), st)

unauthorized_exception_handler(st) ==
    Return(RedirectResponse("/", HTTP_303_SEE_OTHER), st)

authenticated_route(cookie, st) ==
    LET user == current_active_user(st.db, cookie)
    IN  IF user = None
        THEN Raise(HTTP_401_UNAUTHORIZED, "Unauthorized", <<>>, st)
        ELSE Return(JSONResponse("message: Hello " \o user \o "!", 200, <<>>), st)

\* mutant: the dependency lets a request without a user through
auth_redirect_never(user) == FALSE

\* mutant: the dependency sends a request without a user to the page it asked for
auth_redirect_to_home(user, st) ==
    Raise(HTTP_302_FOUND, "Not authorized", <<Hdr("location", "/")>>, st)

\* the dependency of index: the user, or a raised 302 to the login page
auth_redirect_raises(user) == user = None

auth_redirect(user, st) ==
    Raise(HTTP_302_FOUND, "Not authorized", <<Hdr("location", "/my-login")>>, st)

\* mutant: the redirect is returned without the headers of res
mixin_redirect_drops_headers(res, path) ==
    [ret |-> RedirectResponse(path, HTTP_303_SEE_OTHER), res |-> res]

\* mutant: the headers are merged the other way round, into res
mixin_redirect_in_place(res, path) ==
    LET redirect == RedirectResponse(path, HTTP_303_SEE_OTHER)
        merged == [res EXCEPT !.raw_headers = @ \o redirect.raw_headers]
    IN  [ret |-> merged, res |-> merged]

mixin_redirect_default_path == "/"

\* the returned redirect, and res as the call leaves it
mixin_redirect(res, path) ==
    LET redirect == RedirectResponse(path, HTTP_303_SEE_OTHER)
    IN  [ret |-> [redirect EXCEPT !.raw_headers = @ \o res.raw_headers],
         res |-> res]

\* mutant: index answers a dict, as authenticated_route does
index_json(cookie, st) ==
    LET user == current_user(st.db, cookie)
    IN  IF auth_redirect_raises(user)
        THEN auth_redirect(user, st)
        ELSE Return(JSONResponse("message: index", 200, <<>>), st)

index(cookie, st) ==
    LET user == current_user(st.db, cookie)
    IN  IF auth_redirect_raises(user)
        THEN auth_redirect(user, st)
        ELSE Return(TemplateResponse("index.html", ""), st)

login_get(cookie, st) ==
    LET user == current_user(st.db, cookie)
    IN  IF user # None
        THEN Return(RedirectResponse("/", HTTP_303_SEE_OTHER), st)
        ELSE Return(TemplateResponse("login.html", ""), st)

login_post(form, st) ==
    IF form.email = Missing \/ form.password = Missing THEN Invalid(st)
    ELSE
    LET user == authenticate(st.db, form.email, form.password)
        c1 == st.calls \o <<Call("authenticate", form.email, "")>>
    IN  IF user = None
        THEN Return(TemplateResponse("login.html",
                        "there is no user with this username and password"),
                    [st EXCEPT !.calls = c1])
        ELSE LET response == login(st.db, user)
                 c2 == c1 \o <<Call("login", user, ""), Call("on_after_login", user, "")>>
             IN  Return(mixin_redirect(response, mixin_redirect_default_path).ret,
                        [st EXCEPT !.calls = c2])

\* mutant: the form is rendered whoever asks
register_get_always_form(cookie, st) ==
    Return(TemplateResponse("register.html", ""), st)

register_get(cookie, st) ==
    LET user == current_user(st.db, cookie)
    IN  IF user # None
        THEN Return(RedirectResponse("/", HTTP_303_SEE_OTHER), st)
        ELSE Return(TemplateResponse("register.html", ""), st)

\* mutant: UserAlreadyExists is not caught
register_post_no_catch(form, st) ==
    IF form.email = Missing \/ form.password = Missing THEN Invalid(st)
    ELSE IF ~ValidEmail(form.email) THEN Crash("ValidationError", st)
    ELSE
    LET c1 == st.calls \o <<Call("create", form.email, "")>>
    IN  IF UserAlreadyExists(st.db, form.email)
        THEN Crash("UserAlreadyExists", [st EXCEPT !.calls = c1])
        ELSE Return(TemplateResponse("login.html", ""),
                    Store(create(st.db, st.nextId, form.email, form.password),
                          st.nextId + 1, c1))

\* mutant: a created user is logged in at once
register_post_autologin(form, st) ==
    IF form.email = Missing \/ form.password = Missing THEN Invalid(st)
    ELSE IF ~ValidEmail(form.email) THEN Crash("ValidationError", st)
    ELSE
    LET c1 == st.calls \o <<Call("create", form.email, "")>>
    IN  IF UserAlreadyExists(st.db, form.email)
        THEN Return(TemplateResponse("register.html", "UserAlreadyExists"),
                    [st EXCEPT !.calls = c1])
        ELSE LET d == create(st.db, st.nextId, form.email, form.password)
                 c2 == c1 \o <<Call("login", form.email, ""),
                               Call("on_after_login", form.email, "")>>
             IN  Return(mixin_redirect(login(d, form.email), mixin_redirect_default_path).ret,
                        Store(d, st.nextId + 1, c2))

register_post(form, st) ==
    IF form.email = Missing \/ form.password = Missing THEN Invalid(st)
    ELSE IF ~ValidEmail(form.email) THEN Crash("ValidationError", st)
    ELSE
    LET c1 == st.calls \o <<Call("create", form.email, "")>>
    IN  IF UserAlreadyExists(st.db, form.email)
        THEN Return(TemplateResponse("register.html", "UserAlreadyExists"),
                    [st EXCEPT !.calls = c1])
        ELSE Return(TemplateResponse("login.html", ""),
                    Store(create(st.db, st.nextId, form.email, form.password),
                          st.nextId + 1, c1))

\* mutant: the redirect is returned without the headers of the logout response
logout_post_plain_redirect(cookie, st) ==
    LET user_token == get_current_user_token(st.db, cookie)
    IN  IF user_token.user = None
        THEN Raise(HTTP_401_UNAUTHORIZED, "Unauthorized", <<>>, st)
        ELSE Return(RedirectResponse("my-login", HTTP_303_SEE_OTHER),
                    [st EXCEPT !.calls = @ \o <<Call("logout", user_token.user,
                                                      user_token.token)>>])

logout_post(cookie, st) ==
    LET user_token == get_current_user_token(st.db, cookie)
    IN  IF user_token.user = None
        THEN Raise(HTTP_401_UNAUTHORIZED, "Unauthorized", <<>>, st)
        ELSE LET response == logout(user_token.user, user_token.token)
                 c1 == st.calls \o <<Call("logout", user_token.user, user_token.token)>>
             IN  Return(mixin_redirect(response, "my-login").ret,
                        [st EXCEPT !.calls = c1])

----------------------------------------------------------------------------
(* The application: routing and exception handling *)

Routes ==
    <<[path |-> "/authenticated-route", method |-> "GET", name |-> "authenticated_route"],
      [path |-> "/", method |-> "GET", name |-> "index"],
      [path |-> "/my-login", method |-> "GET", name |-> "login_get"],
      [path |-> "/my-login", method |-> "POST", name |-> "login_post"],
      [path |-> "/register", method |-> "GET", name |-> "register_get"],
      [path |-> "/register", method |-> "POST", name |-> "register_post"],
      [path |-> "/logout", method |-> "POST", name |-> "logout_post"]>>

RoutePaths == {Routes[i].path : i \in DOMAIN Routes}
UnknownPaths == {"/nope"}
Paths == RoutePaths \cup UnknownPaths
Methods == {"GET", "POST"}

FullMatches(method, path) ==
    {i \in DOMAIN Routes : Routes[i].path = path /\ Routes[i].method = method}
PartialMatches(path) == {i \in DOMAIN Routes : Routes[i].path = path}

Min(S) == CHOOSE x \in S : \A y \in S : x <= y

Endpoint(name, cookie, form, st) ==
    CASE name = "authenticated_route" -> authenticated_route(cookie, st)
      [] name = "index" -> index(cookie, st)
      [] name = "login_get" -> login_get(cookie, st)
      [] name = "login_post" -> login_post(form, st)
      [] name = "register_get" -> register_get(cookie, st)
      [] name = "register_post" -> register_post(form, st)
      [] name = "logout_post" -> logout_post(cookie, st)

\* Router: the first full match; else 405 for a path that matches; else 404
Router(method, path, cookie, form, st) ==
    IF FullMatches(method, path) # {}
    THEN Endpoint(Routes[Min(FullMatches(method, path))].name, cookie, form, st)
    ELSE IF PartialMatches(path) # {}
    THEN Raise(405, "Method Not Allowed",
               <<Hdr("allow", Routes[Min(PartialMatches(path))].method)>>, st)
    ELSE Raise(HTTP_404_NOT_FOUND, "Not Found", <<>>, st)

\* the exception handlers: the two registered by status code, FastAPI's own
\* for every other HTTPException and for a request that does not validate,
\* and the server error of an exception nothing handles
ExceptionMiddleware(out) ==
    CASE out.kind = "return" -> out
      [] out.kind = "raise" /\ out.status_code = HTTP_404_NOT_FOUND ->
            not_found_exception_handler(out.st)
      [] out.kind = "raise" /\ out.status_code = HTTP_401_UNAUTHORIZED ->
            unauthorized_exception_handler(out.st)
      [] out.kind = "raise" /\ out.status_code \notin {HTTP_404_NOT_FOUND, HTTP_401_UNAUTHORIZED} ->
            Return(JSONResponse("detail: " \o out.detail, out.status_code, out.headers), out.st)
      [] out.kind = "invalid" ->
            Return(JSONResponse("detail: field required", 422, <<>>), out.st)
      [] out.kind = "crash" ->
            Return([status_code |-> 500,
                    raw_headers |-> <<Hdr("content-length", BodyLen(TextBody("Internal Server Error"))),
                                      Hdr("content-type", "text/plain; charset=utf-8")>>,
                    body |-> TextBody("Internal Server Error")], out.st)

\* how a routed call ended: returned, or the exception it raised
Ending(out) ==
    [kind |-> out.kind,
     status_code |-> IF out.kind = "raise" THEN out.status_code ELSE 0]
NoEnding == [kind |-> "", status_code |-> 0]

app(method, path, cookie, form, st) ==
    LET routed == Router(method, path, cookie, form, st)
        out == ExceptionMiddleware(routed)
    IN  [resp |-> out.resp, st |-> out.st, exc |-> Ending(routed)]

----------------------------------------------------------------------------
(* The client *)

NoForm == [email |-> Missing, password |-> Missing]
\* the forms a client posts: both fields, or one of them left out
Forms ==
    [email : Emails \cup {BadEmail}, password : Passwords]
    \cup {[email |-> Missing, password |-> "pw1"],
          [email |-> Email(1), password |-> Missing]}

RECURSIVE ApplyCookies(_, _)
\* the cookie jar after the Set-Cookie headers of a response, in order
ApplyCookies(cookie, headers) ==
    IF headers = <<>> THEN cookie
    ELSE ApplyCookies(IF Head(headers).name = "set-cookie"
                      THEN Head(headers).value ELSE cookie,
                      Tail(headers))

HeaderValues(r, name) ==
    {r.raw_headers[i].value : i \in {j \in DOMAIN r.raw_headers : r.raw_headers[j].name = name}}

FirstHeader(r, name) ==
    r.raw_headers[Min({j \in DOMAIN r.raw_headers : r.raw_headers[j].name = name})].value

IsRedirect(r) ==
    r.status_code \in {301, 302, 303, 307, 308} /\ HeaderValues(r, "location") # {}

\* a Location is resolved against the URL of the request; every path of the
\* model has one segment, so its directory is the root
Dir(base) == "/"
Resolve(base, loc) == IF loc \in Paths THEN loc ELSE Dir(base) \o loc

NoRequest == [method |-> "", path |-> "", cookie |-> NoCookie, form |-> NoForm]
NoResponse == [status_code |-> 0, raw_headers |-> <<>>, body |-> EmptyBody]
MixIdle == [done |-> FALSE, path |-> "", res |-> NoResponse, after |-> NoResponse,
            ret |-> NoResponse]

\* one exchange: the request, the application's answer and its effects, and
\* the cookies the client keeps
Exchange(method, path, form) ==
    \E out \in {app(method, path, jar, form, Store(db, nextId, <<>>))} :
        /\ req' = [method |-> method, path |-> path, cookie |-> jar, form |-> form]
        /\ resp' = out.resp
        /\ db' = out.st.db
        /\ nextId' = out.st.nextId
        /\ calls' = out.st.calls
        /\ exc' = out.exc
        /\ jar' = ApplyCookies(jar, out.resp.raw_headers)
        /\ UNCHANGED mix

Index ==
    /\ Exchange("GET", "/", NoForm)
    /\ trail' = <<"/">>

LoginGet ==
    /\ Exchange("GET", "/my-login", NoForm)
    /\ trail' = <<"/my-login">>

LoginPost ==
    /\ \E f \in Forms : Exchange("POST", "/my-login", f)
    /\ trail' = <<"/my-login">>

RegisterGet ==
    /\ Exchange("GET", "/register", NoForm)
    /\ trail' = <<"/register">>

RegisterPost ==
    /\ \E f \in Forms : Exchange("POST", "/register", f)
    /\ trail' = <<"/register">>

LogoutPost ==
    /\ Exchange("POST", "/logout", NoForm)
    /\ trail' = <<"/logout">>

AuthenticatedRoute ==
    /\ Exchange("GET", "/authenticated-route", NoForm)
    /\ trail' = <<"/authenticated-route">>

NotFound ==
    \E m \in Methods, p \in UnknownPaths :
        /\ Exchange(m, p, NoForm)
        /\ trail' = <<p>>

MethodNotAllowed ==
    \E m \in Methods, p \in RoutePaths :
        /\ FullMatches(m, p) = {}
        /\ Exchange(m, p, NoForm)
        /\ trail' = <<p>>

\* the client follows a redirect: a GET of the Location, with its cookie jar
FollowRedirect ==
    /\ IsRedirect(resp)
    /\ Len(trail) <= MaxHops
    /\ \E target \in {Resolve(req.path, FirstHeader(resp, "location"))} :
        /\ Exchange(IF resp.status_code \in {307, 308} THEN req.method ELSE "GET",
                    target, NoForm)
        /\ trail' = trail \o <<target>>

hops == IF trail = <<>> THEN 0 ELSE Len(trail) - 1

----------------------------------------------------------------------------
(* The stored users and the cookie the client starts with *)

\* the index of an email; the tables a run starts from hand their ids out in
\* that order (an id only names a user)
Index0(e) == CHOOSE i \in 1..NumEmails : Email(i) = e

Tables ==
    UNION {{d \in [S -> UserRec] :
                \A e \in S : d[e].id = Cardinality({x \in S : Index0(x) <= Index0(e)})}
           : S \in SUBSET Emails}

Init ==
    /\ db \in Tables
    /\ nextId = Cardinality(DOMAIN db) + 1
    /\ jar \in {NoCookie, "garbage"} \cup {Token(i) : i \in 0..Cardinality(DOMAIN db)}
    /\ req = NoRequest
    /\ resp = NoResponse
    /\ calls = <<>>
    /\ exc = NoEnding
    /\ trail = <<>>
    /\ mix = MixIdle

Next ==
    \/ Index
    \/ LoginGet
    \/ LoginPost
    \/ RegisterGet
    \/ RegisterPost
    \/ LogoutPost
    \/ AuthenticatedRoute
    \/ NotFound
    \/ MethodNotAllowed
    \/ FollowRedirect

Spec == Init /\ [][Next]_vars

----------------------------------------------------------------------------
(* mixin_redirect alone, on the responses a caller may hand it *)

HeaderPool ==
    {Hdr("set-cookie", Token(1)), Hdr("set-cookie", NoCookie),
     Hdr("content-type", "application/json"), Hdr("content-length", "5")}

HeaderLists == UNION {[1..k -> HeaderPool] : k \in 0..MaxHdrs}

MixResponses ==
    [status_code : {200, 204}, raw_headers : HeaderLists,
     body : {EmptyBody, JsonBody("null")}]

MixPaths == {"/", "my-login", "/register"}

InitMixin ==
    /\ db \in {d \in Tables : DOMAIN d = {}}
    /\ nextId = 1
    /\ jar = NoCookie
    /\ req = NoRequest
    /\ resp = NoResponse
    /\ calls = <<>>
    /\ exc = NoEnding
    /\ trail = <<>>
    /\ \E r \in MixResponses, p \in MixPaths :
          mix = [done |-> FALSE, path |-> p, res |-> r, after |-> r, ret |-> NoResponse]

MixinRedirectCall ==
    /\ ~mix.done
    /\ \E r \in {mixin_redirect(mix.res, mix.path)} :
          mix' = [mix EXCEPT !.done = TRUE, !.ret = r.ret, !.after = r.res]
    /\ UNCHANGED <<db, nextId, jar, req, resp, calls, exc, trail>>

NextMixin == MixinRedirectCall

SpecMixin == InitMixin /\ [][NextMixin]_vars

----------------------------------------------------------------------------
(* Shorthands over the last exchange *)

IsRequest(method, path) == req.method = method /\ req.path = path
FormComplete == req.form.email # Missing /\ req.form.password # Missing
SetCookies(r) == SelectSeq(r.raw_headers, LAMBDA h : h.name = "set-cookie")
Renders(r, name) == r.status_code = 200 /\ r.body.kind = "template" /\ r.body.name = name
RedirectsTo(r, status, url) ==
    /\ r.status_code = status
    /\ HeaderValues(r, "location") = {url}
    /\ r.body.kind # "template"
\* what the application answers the client now, were it to GET this path
Get(path) == app("GET", path, jar, NoForm, Store(db, nextId, <<>>)).resp
\* the user POST /my-login authenticated (the table is not touched by a login)
LoginUser == authenticate(db, req.form.email, req.form.password)
LoginSucceeded == IsRequest("POST", "/my-login") /\ FormComplete /\ LoginUser # None

----------------------------------------------------------------------------
(* C1: POST /my-login with credentials that authenticate a user answers 303 *)
(* with Location "/" and with the Set-Cookie headers of the response of     *)
(* auth_backend.login for that user; the client then holds that user's      *)
(* token, and a GET / with it renders index.html.                           *)
C1_LoginRedirectsWithSession ==
    LoginSucceeded =>
        /\ resp.status_code = HTTP_303_SEE_OTHER
        /\ HeaderValues(resp, "location") = {"/"}
        /\ SetCookies(resp) = <<Hdr("set-cookie", Token(db[LoginUser].id))>>
        /\ SetCookies(resp) = SetCookies(login(db, LoginUser))
        /\ jar = Token(db[LoginUser].id)
        /\ current_user(db, jar) = LoginUser
        /\ Renders(Get("/"), "index.html")

C1_Witness ==
    /\ LoginSucceeded
    /\ resp.status_code = HTTP_303_SEE_OTHER
    /\ current_user(db, req.cookie) # LoginUser

(* C2: a request whose routed call raises HTTP 401 or 404 is answered 303   *)
(* with Location "/", whatever the session; no response has status 401 or   *)
(* 404.                                                                     *)
C2_ErrorsRedirectHome ==
    /\ resp.status_code \notin {HTTP_401_UNAUTHORIZED, HTTP_404_NOT_FOUND}
    /\ (exc.kind = "raise" /\ exc.status_code \in {HTTP_401_UNAUTHORIZED, HTTP_404_NOT_FOUND})
          => resp = RedirectResponse("/", HTTP_303_SEE_OTHER)
    /\ (req.path \in UnknownPaths \/ (IsRequest("POST", "/logout") /\ current_user(db, req.cookie) = None))
          => RedirectsTo(resp, HTTP_303_SEE_OTHER, "/")

\* a 401 of a request that carries a valid session (an inactive user asks for
\* /authenticated-route)
C2_Witness ==
    /\ exc.kind = "raise"
    /\ exc.status_code = HTTP_401_UNAUTHORIZED
    /\ current_user(db, req.cookie) # None
    /\ RedirectsTo(resp, HTTP_303_SEE_OTHER, "/")

(* C3: a step that posts a stored email to /register renders register.html  *)
(* with the message "UserAlreadyExists", leaves the table as it was and the  *)
(* client's cookie as it was, with no Set-Cookie header; a POST /register    *)
(* that fails otherwise (the email is no email address) is answered with no  *)
(* template at all.                                                          *)
C3_DuplicateRegistration ==
    [][(req'.method = "POST" /\ req'.path = "/register"
            /\ req'.form.email # Missing /\ req'.form.password # Missing)
        => /\ req'.form.email \in DOMAIN db
                => /\ Renders(resp', "register.html")
                   /\ resp'.body.context = "UserAlreadyExists"
                   /\ db' = db
                   /\ nextId' = nextId
                   /\ jar' = jar
                   /\ SetCookies(resp') = <<>>
                   /\ calls' = <<Call("create", req'.form.email, "")>>
           /\ exc'.kind = "crash"
                => /\ resp'.body.kind # "template"
                   /\ resp'.status_code = 500
                   /\ db' = db
           /\ (req'.form.email \notin DOMAIN db /\ ValidEmail(req'.form.email))
                => resp'.body.context # "UserAlreadyExists"]_vars

C3_Witness ==
    /\ IsRequest("POST", "/register")
    /\ Renders(resp, "register.html")
    /\ resp.body.context = "UserAlreadyExists"
    /\ req.form.email \in DOMAIN db

(* C4: GET / renders index.html only for a request whose session resolves to *)
(* a user; for one that resolves to none it answers 302 with Location        *)
(* /my-login and renders nothing; index.html is rendered by no other request.*)
C4_IndexProtected ==
    /\ IsRequest("GET", "/") =>
          IF current_user(db, req.cookie) # None
          THEN Renders(resp, "index.html")
          ELSE RedirectsTo(resp, HTTP_302_FOUND, "/my-login")
    /\ (resp.body.kind = "template" /\ resp.body.name = "index.html") =>
          (IsRequest("GET", "/") /\ current_user(db, req.cookie) # None)

\* a GET / carrying a cookie that resolves to no user
C4_Witness ==
    /\ IsRequest("GET", "/")
    /\ req.cookie # NoCookie
    /\ current_user(db, req.cookie) = None
    /\ RedirectsTo(resp, HTTP_302_FOUND, "/my-login")

(* C5: mixin_redirect(res, path) returns a 303 whose headers are             *)
(* content-length 0 and location path (the redirect's own) followed by the   *)
(* headers of res, each in its place and as it was; its body is empty and    *)
(* its status is not that of res; res is as it was.                          *)
C5_MixinCopiesHeaders ==
    mix.done =>
        /\ mix.ret.status_code = HTTP_303_SEE_OTHER
        /\ mix.ret.status_code # mix.res.status_code
        /\ mix.ret.body = EmptyBody
        /\ Len(mix.ret.raw_headers) = 2 + Len(mix.res.raw_headers)
        /\ mix.ret.raw_headers[1] = Hdr("content-length", "0")
        /\ mix.ret.raw_headers[2] = Hdr("location", mix.path)
        /\ \A i \in DOMAIN mix.res.raw_headers :
              mix.ret.raw_headers[2 + i] = mix.res.raw_headers[i]
        /\ mix.after = mix.res

\* a call whose res has two different headers and a body of its own
C5_Witness ==
    /\ mix.done
    /\ Len(mix.res.raw_headers) = 2
    /\ mix.res.raw_headers[1] # mix.res.raw_headers[2]
    /\ mix.res.body # EmptyBody
    /\ mix.path # "/"

(* C6 as stated: every handler, for every input and session state, ends by  *)
(* rendering one of two static templates or by issuing a redirect (stated    *)
(* here of the handlers that return, which is the least the claim says).     *)
HandlerRan == req # NoRequest /\ FullMatches(req.method, req.path) # {}

\* the templates the handlers render from here, over the requests a client
\* with or without a session of a stored user may send
TemplatesServable ==
    {r.body.name :
        r \in {x \in {app(m, p, c, f, Store(db, nextId, <<>>)).resp :
                        m \in Methods, p \in RoutePaths,
                        c \in {NoCookie} \cup {Token(db[e].id) : e \in DOMAIN db},
                        f \in Forms} : x.body.kind = "template"}}

C6_Original ==
    (HandlerRan /\ exc.kind = "return") =>
        /\ resp.body.kind = "template" \/ IsRedirect(resp)
        /\ Cardinality(TemplatesServable) <= 2

(* C6 amended: a handler that ran ends by rendering one of the three         *)
(* templates index.html, login.html, register.html or by a redirect, except  *)
(* that authenticated_route answers a JSON message (or the 401 redirect) and *)
(* that register_post, given an email that is no email address, fails with   *)
(* an unhandled error answered 500; a POST without a required form field is  *)
(* answered 422 before its handler runs.                                     *)
C6_HandlersRenderOrRedirect ==
    HandlerRan =>
        CASE exc.kind = "invalid" ->
                /\ req.method = "POST" /\ ~FormComplete
                /\ resp.status_code = 422
          [] exc.kind = "crash" ->
                /\ IsRequest("POST", "/register") /\ ~ValidEmail(req.form.email)
                /\ resp.status_code = 500 /\ resp.body.kind = "text"
          [] exc.kind \notin {"invalid", "crash"} /\ req.path = "/authenticated-route" ->
                \/ resp.status_code = 200 /\ resp.body.kind = "json"
                \/ RedirectsTo(resp, HTTP_303_SEE_OTHER, "/")
          [] OTHER ->
                \/ /\ resp.status_code = 200
                   /\ resp.body.kind = "template"
                   /\ resp.body.name \in {"index.html", "login.html", "register.html"}
                \/ IsRedirect(resp) /\ resp.status_code \in {HTTP_302_FOUND, HTTP_303_SEE_OTHER}

\* authenticated_route answers an active user with JSON
C6_Witness ==
    /\ IsRequest("GET", "/authenticated-route")
    /\ resp.status_code = 200
    /\ resp.body.kind = "json"

(* C7: POST /logout with a session that resolves to a user calls             *)
(* auth_backend.logout once, for that user and the token of the request, and *)
(* answers 303 with Location "my-login" (which /logout resolves to           *)
(* /my-login) and the cookie-clearing Set-Cookie of the logout response; the *)
(* client then has no cookie and GET / answers it 302 to /my-login; and the  *)
(* client goes from no session to a session only by a successful            *)
(* POST /my-login.                                                           *)
LogoutServed == IsRequest("POST", "/logout") /\ current_user(db, req.cookie) # None

C7_LogoutState ==
    LogoutServed =>
        /\ calls = <<Call("logout", current_user(db, req.cookie), req.cookie)>>
        /\ resp.status_code = HTTP_303_SEE_OTHER
        /\ HeaderValues(resp, "location") = {"my-login"}
        /\ Resolve(req.path, FirstHeader(resp, "location")) = "/my-login"
        /\ SetCookies(resp) = <<Hdr("set-cookie", NoCookie)>>
        /\ jar = NoCookie
        /\ current_user(db, jar) = None
        /\ RedirectsTo(Get("/"), HTTP_302_FOUND, "/my-login")
        /\ ~Renders(Get("/"), "index.html")

C7_LogoutEndsSession ==
    /\ []C7_LogoutState
    /\ [][(current_user(db, jar) = None /\ current_user(db', jar') # None)
            => (LoginSucceeded' /\ resp'.status_code = HTTP_303_SEE_OTHER)]_vars

C7_Witness ==
    /\ LogoutServed
    /\ req.cookie # NoCookie
    /\ jar = NoCookie
    /\ resp.status_code = HTTP_303_SEE_OTHER

(* C8: GET /my-login renders login.html and GET /register renders            *)
(* register.html exactly when the request resolves to no user; when it       *)
(* resolves to a user, each answers the 303 redirect to "/" and no form.     *)
C8_FormsOnlyWithoutSession ==
    /\ IsRequest("GET", "/my-login") =>
          IF current_user(db, req.cookie) = None
          THEN Renders(resp, "login.html") /\ resp.body.context = ""
          ELSE resp = RedirectResponse("/", HTTP_303_SEE_OTHER)
    /\ IsRequest("GET", "/register") =>
          IF current_user(db, req.cookie) = None
          THEN Renders(resp, "register.html") /\ resp.body.context = ""
          ELSE resp = RedirectResponse("/", HTTP_303_SEE_OTHER)

C8_Witness ==
    /\ IsRequest("GET", "/register")
    /\ current_user(db, req.cookie) # None
    /\ resp.status_code = HTTP_303_SEE_OTHER

(* C9: login and on_after_login are called only by a POST /my-login whose    *)
(* authenticate returned a user, after authenticate, in that order and once  *)
(* each, and only that request is answered with a session-setting cookie or  *)
(* leaves the client with a new session; a POST /my-login that does not      *)
(* authenticate renders login.html with the error message and sets no        *)
(* cookie; a POST /register calls neither, sets no cookie and leaves the     *)
(* client's cookie as it was, so a client without a cookie is still          *)
(* redirected from / to /my-login.                                           *)
CallNames == {calls[i].fn : i \in DOMAIN calls}
SetsSession(r) == \E i \in DOMAIN r.raw_headers :
                      r.raw_headers[i].name = "set-cookie" /\ r.raw_headers[i].value # NoCookie

C9_SessionOnlyByLogin ==
    /\ (req # NoRequest
          /\ (CallNames \cap {"login", "on_after_login"} # {} \/ SetsSession(resp)
                \/ (current_user(db, jar) # None /\ jar # req.cookie)))
          => /\ LoginSucceeded
             /\ calls = <<Call("authenticate", req.form.email, ""),
                          Call("login", LoginUser, ""),
                          Call("on_after_login", LoginUser, "")>>
    /\ LoginSucceeded => SetsSession(resp) /\ Len(calls) = 3
    /\ (IsRequest("POST", "/my-login") /\ FormComplete /\ LoginUser = None)
          => /\ Renders(resp, "login.html")
             /\ resp.body.context = "there is no user with this username and password"
             /\ SetCookies(resp) = <<>>
             /\ jar = req.cookie
             /\ calls = <<Call("authenticate", req.form.email, "")>>
    /\ IsRequest("POST", "/register")
          => /\ CallNames \subseteq {"create"}
             /\ SetCookies(resp) = <<>>
             /\ jar = req.cookie
             /\ (jar = NoCookie => RedirectsTo(Get("/"), HTTP_302_FOUND, "/my-login"))

\* a registration that created the user and left the client without a session
C9_Witness ==
    /\ IsRequest("POST", "/register")
    /\ Renders(resp, "login.html")
    /\ req.form.email \in DOMAIN db
    /\ jar = NoCookie
    /\ calls = <<Call("create", req.form.email, "")>>

(* C10 as stated: following redirects from any request, the client reaches,  *)
(* after at most two redirects, index.html when it has a valid session and   *)
(* login.html when it has none, and is never sent to a URL of the chain      *)
(* (stated here of the requests a handler answers by returning, which is     *)
(* the least the claim says).                                                *)
NoRepeat(seq) == \A i, j \in DOMAIN seq : seq[i] = seq[j] => i = j
ChainEnded == req # NoRequest /\ ~IsRedirect(resp)
LandsOnIndexOrLogin ==
    IF current_user(db, jar) # None
    THEN Renders(resp, "index.html")
    ELSE Renders(resp, "login.html")

====
